---- MODULE Spec2Model ----
(***************************************************************************)
(* Chess 2: the lockstep scheduler and peer synchronization protocol of    *)
(* main.py (class Game) driving the rule engine of chess.py.               *)
(*                                                                         *)
(* Every process runs Game.iteration in a loop: communicate, outbox        *)
(* insertion, act, event handlers.  game[p] holds the fields of the Game   *)
(* object of process p, net the datagrams in flight, pc[p] the position of *)
(* p's loop, todo[p] the rest of the for loop of act.                      *)
(***************************************************************************)
EXTENDS Integers, Sequences, FiniteSets, TLC

(* ------------------------------------------------------------------ *)
(* Program constants                                                    *)
(* ------------------------------------------------------------------ *)
latency == 5
player_freeze_time == 20
freeze_time == 80
King_freeze_time == 60
egg_time == 60

(* Python's None, where the other values of the field are naturals. *)
None == -1

(* Tagged parameter values: F-keys queue ints, text commands queue strings. *)
IntV(n) == <<"int", n>>
StrV(s) == <<"str", s>>
NoneV == <<"none">>

(* ------------------------------------------------------------------ *)
(* Small helpers for Python dicts and lists                             *)
(* ------------------------------------------------------------------ *)
Del(f, k) == [x \in DOMAIN f \ {k} |-> f[x]]
Put(f, k, v) == [x \in DOMAIN f \cup {k} |-> IF x = k THEN v ELSE f[x]]
Get(f, k, d) == IF k \in DOMAIN f THEN f[k] ELSE d
EmptyDict == [x \in {} |-> 0]
Range(s) == {s[k] : k \in DOMAIN s}
Max2(a, b) == IF a >= b THEN a ELSE b
Abs(a) == IF a >= 0 THEN a ELSE -a

RECURSIVE Extend(_, _)
Extend(s, t) == IF t = <<>> THEN s ELSE Extend(Append(s, Head(t)), Tail(t))

(* ------------------------------------------------------------------ *)
(* chess.py: pieces                                                     *)
(* ------------------------------------------------------------------ *)
first_row == <<"Rook", "Knight", "Bishop", "Queen", "King", "Bishop", "Knight", "Rook">>

(* Piece.__init__; id stands for the identity of the Python object. *)
Piece(kind, player, pos, id) ==
    [kind |-> kind, player |-> player, pos |-> pos, id |-> id,
     freeze_until |-> 0, last_move_time |-> None]

NoPiece == Piece("None", None, <<None, None>>, None)

side(piece) == piece.player % 2

FreezeTimeOf(kind) == IF kind = "King" THEN King_freeze_time ELSE freeze_time

in_bounds(g, pos) ==
    \A k \in 1..2 : 0 <= pos[k] /\ pos[k] < g.board_size[k]

(* The longest walk a streak can take before it leaves the board. *)
RayLen(g) == Max2(g.board_size[1], g.board_size[2]) + 1

(* (x+d*dx, y+d*dy) for d in count(1), cut where every walk has stopped. *)
Ray(g, x, y, dx, dy) == [d \in 1..RayLen(g) |-> <<x + d * dx, y + d * dy>>]

Rook_moves(g, x, y) ==
    <<Ray(g, x, y, 1, 0), Ray(g, x, y, -1, 0), Ray(g, x, y, 0, 1), Ray(g, x, y, 0, -1)>>

Bishop_moves(g, x, y) ==
    <<Ray(g, x, y, 1, 1), Ray(g, x, y, -1, -1), Ray(g, x, y, 1, -1), Ray(g, x, y, -1, 1)>>

Queen_moves(g, x, y) == Rook_moves(g, x, y) \o Bishop_moves(g, x, y)

Knight_moves(x, y) ==
    << <<(<<x - 1, y - 2>>)>>, <<(<<x - 2, y - 1>>)>>,
       <<(<<x - 1, y + 2>>)>>, <<(<<x + 2, y - 1>>)>>,
       <<(<<x + 1, y - 2>>)>>, <<(<<x - 2, y + 1>>)>>,
       <<(<<x + 1, y + 2>>)>>, <<(<<x + 2, y + 1>>)>> >>

(* King.castling: the unmoved Rook (of any player) that is the first piece
   from (x, y) in the direction, more than two columns away; else None. *)
castling(g, x, y, direction) ==
    LET reach == {d \in 1..RayLen(g) :
                    /\ \A e \in 1..d : in_bounds(g, <<x + e * direction, y>>)
                    /\ <<x + d * direction, y>> \in DOMAIN g.board
                    /\ \A e \in 1..(d - 1) : <<x + e * direction, y>> \notin DOMAIN g.board}
    IN IF reach = {} THEN NoPiece
       ELSE LET d == CHOOSE d \in reach : TRUE
                piece == g.board[<<x + d * direction, y>>]
            IN IF d > 2 /\ piece.kind = "Rook" /\ piece.last_move_time = None
               THEN piece ELSE NoPiece

King_moves(g, piece, x, y) ==
    LET ring == << <<(<<x - 1, y - 1>>)>>, <<(<<x - 1, y>>)>>, <<(<<x - 1, y + 1>>)>>,
                   <<(<<x, y - 1>>)>>, <<(<<x, y + 1>>)>>,
                   <<(<<x + 1, y - 1>>)>>, <<(<<x + 1, y>>)>>, <<(<<x + 1, y + 1>>)>> >>
        jump(direction) ==
            IF castling(g, x, y, direction) # NoPiece
            THEN << <<(<<x + direction * 2, y>>)>> >> ELSE <<>>
    IN IF piece.last_move_time # None THEN ring
       ELSE ring \o jump(-1) \o jump(1)

Pawn_moves(g, piece, x, y) ==
    LET start_row == IF side(piece) = 1 THEN 6 ELSE 1
        delta == IF side(piece) = 1 THEN -1 ELSE 1
        m == IF y = start_row THEN << <<x, y + delta>>, <<x, y + 2 * delta>> >>
             ELSE << <<x, y + delta>> >>
        blocked == {c \in 1..Len(m) : m[c] \in DOMAIN g.board}
        cut == IF blocked = {} THEN m
               ELSE SubSeq(m, 1, (CHOOSE c \in blocked : \A e \in blocked : c <= e) - 1)
        take(a) == IF <<a, y + delta>> \in DOMAIN g.board
                   THEN << <<(<<a, y + delta>>)>> >> ELSE <<>>
    IN <<cut>> \o take(x - 1) \o take(x + 1)

(* piece._moves, called on the coordinates of piece.pos: the streaks of its kind. *)
StreaksOf(g, piece) ==
    LET x == piece.pos[1]
        y == piece.pos[2]
    IN CASE piece.kind = "Rook" -> Rook_moves(g, x, y)
         [] piece.kind = "Bishop" -> Bishop_moves(g, x, y)
         [] piece.kind = "Queen" -> Queen_moves(g, x, y)
         [] piece.kind = "Knight" -> Knight_moves(x, y)
         [] piece.kind = "King" -> King_moves(g, piece, x, y)
         [] piece.kind = "Pawn" -> Pawn_moves(g, piece, x, y)
         [] OTHER -> <<>>

(* Piece.base_moves: a streak is walked until a piece of the same side or the
   edge of the board (not yielded), or a piece of the other side (yielded). *)
base_moves(g, piece) ==
    LET stop(streak, k) ==
            \/ /\ streak[k] \in DOMAIN g.board
               /\ side(g.board[streak[k]]) = side(piece)
            \/ ~in_bounds(g, streak[k])
        walk(streak) ==
            {streak[k] : k \in {k \in DOMAIN streak :
                /\ \A j \in 1..k : ~stop(streak, j)
                /\ \A j \in 1..(k - 1) : streak[j] \notin DOMAIN g.board}}
        streaks == StreaksOf(g, piece)
    IN UNION {walk(streaks[n]) : n \in DOMAIN streaks}

(* Piece.moves: nothing while the piece or its player is frozen. *)
moves(g, piece) ==
    IF g.counter < Max2(piece.freeze_until, Get(g.player_freeze, piece.player, 0))
    THEN {}
    ELSE base_moves(g, piece)

(* Piece.die: on_die is the no-op of Piece (Game.init_board installs no callback). *)
die(g, piece) ==
    IF piece.pos \in DOMAIN g.board /\ g.board[piece.pos].id = piece.id
    THEN [g EXCEPT !.board = Del(g.board, piece.pos)]
    ELSE g

(* The result of a method: the game after it, what it returned, whether it raised. *)
Ret(g, ret) == [g |-> g, ret |-> ret, exc |-> FALSE]
Raised(g) == [g |-> g, ret |-> FALSE, exc |-> TRUE]

(* Piece.move *)
Piece_move(g, piece, pos) ==
    IF piece.pos \notin DOMAIN g.board THEN Raised(g)
    ELSE IF g.board[piece.pos].id # piece.id \/ pos \notin moves(g, piece) THEN Ret(g, FALSE)
    ELSE
      LET g1 == [g EXCEPT !.board = Del(g.board, piece.pos)]
          g2 == IF pos \in DOMAIN g1.board THEN die(g1, g1.board[pos]) ELSE g1
          moved == [piece EXCEPT !.last_move_time = g.counter,
                                 !.pos = pos,
                                 !.freeze_until = g.counter + FreezeTimeOf(piece.kind)]
      IN Ret([g2 EXCEPT !.board = Put(g2.board, pos, moved),
                        !.player_freeze =
                            Put(g.player_freeze, piece.player, g.counter + player_freeze_time)],
             TRUE)

King_castle_stray(g, piece, pos, rook, rook_pos) ==
    IF rook = NoPiece THEN Ret(g, FALSE)
    ELSE
      LET b1 == Put(Del(g.board, piece.pos), pos, [piece EXCEPT !.pos = pos])
          b2 == Del(b1, rook.pos)
          b3 == Put(b2, rook_pos, rook)
      IN IF piece.pos \notin DOMAIN g.board \/ rook.pos \notin DOMAIN b1
         THEN Raised(g)
         ELSE Ret([g EXCEPT !.board = b3], FALSE)

(* King.move, lines 150-156: the castling jump, rook the piece castling()
   answered *)
King_castle(g, piece, pos, rook, rook_pos) ==
    IF rook = NoPiece THEN Ret(g, FALSE)
    ELSE
      LET b1 == Put(Del(g.board, piece.pos), pos, [piece EXCEPT !.pos = pos])
          b2 == Del(b1, rook.pos)
          b3 == Put(b2, rook_pos, [rook EXCEPT !.pos = rook_pos])
      IN IF piece.pos \notin DOMAIN g.board \/ rook.pos \notin DOMAIN b1
         THEN Raised(g)
         ELSE Ret([g EXCEPT !.board = b3], FALSE)

(* King.move *)
King_move(g, piece, pos) ==
    LET x == pos[1]
        y == pos[2]
        sx == piece.pos[1]
        sy == piece.pos[2]
        direction == IF x > sx THEN 1 ELSE -1
    IN IF Abs(x - sx) <= 1 THEN Piece_move(g, piece, pos)
       ELSE IF y # sy THEN Raised(g)
       ELSE King_castle(g, piece, pos, castling(g, sx, sy, direction),
                        <<sx + direction, sy>>)

Pawn_promote_hatched(r, piece, pos) ==
    LET far == (side(piece) = 0 /\ pos[2] = 7) \/ (side(piece) = 1 /\ pos[2] = 0)
        g1 == die(r.g, r.g.board[pos])
        queen == [Piece("Queen", piece.player, pos, g1.objects)
                    EXCEPT !.freeze_until = g1.counter + freeze_time]
    IN IF r.exc \/ ~r.ret THEN r
       ELSE IF far
            THEN Ret([g1 EXCEPT !.board = Put(g1.board, pos, queen),
                                !.objects = g1.objects + 1], TRUE)
            ELSE r

(* Pawn.move, lines 185-191, r the outcome of Piece.move *)
Pawn_promote(r, piece, pos) ==
    LET far == (side(piece) = 0 /\ pos[2] = 7) \/ (side(piece) = 1 /\ pos[2] = 0)
        g1 == die(r.g, r.g.board[pos])
        queen == [Piece("Queen", piece.player, pos, g1.objects)
                    EXCEPT !.freeze_until = g1.counter + egg_time]
    IN IF r.exc \/ ~r.ret THEN r
       ELSE IF far
            THEN Ret([g1 EXCEPT !.board = Put(g1.board, pos, queen),
                                !.objects = g1.objects + 1], TRUE)
            ELSE r

(* Pawn.move *)
Pawn_move(g, piece, pos) == Pawn_promote(Piece_move(g, piece, pos), piece, pos)

(* board[src].move(dst), resolved on the class of the piece *)
move(g, piece, pos) ==
    CASE piece.kind = "King" -> King_move(g, piece, pos)
      [] piece.kind = "Pawn" -> Pawn_move(g, piece, pos)
      [] OTHER -> Piece_move(g, piece, pos)

(* ------------------------------------------------------------------ *)
(* main.py: the Game object                                             *)
(* ------------------------------------------------------------------ *)
(* The processes; a process's id is its number (random.randrange(2**64) in
   the program: only that ids differ and are ordered matters).  Its network
   address is a different value. *)
Ids == {1, 2, 3}
AddrOf(p) == 100 + p
IdAt(addr) == addr - 100

(* An Action as add_action queues it.  by is not in the program: it records
   the Python object the user had selected when a move was queued. *)
Action(kind, params) == [by |-> None, kind |-> kind, params |-> params]
MoveAction(src, dst, piece) == [by |-> piece.id, kind |-> "move", params |-> <<src, dst>>]

(* Game.add_action *)
add_action(g, a) == [g EXCEPT !.cur_actions = Append(g.cur_actions, a)]

(* messages.append / messages.extend *)
Say(g, line) == [g EXCEPT !.messages = Append(g.messages, line)]

(* Game.nick *)
nick(g, i) == Get(g.nicknames, i, "anonymouse")

(* The armies of Game.init_board: (x, y0, y1) of player who = index - 1. *)
Armies == << <<0, 0, 1>>, <<0, 7, 6>>, <<8, 0, 1>>, <<8, 7, 6>> >>

(* Game.init_board: num_boards is an int here.  Objects are numbered in the
   order the loops create them. *)
init_board(g, num_boards) ==
    LET num_players == num_boards * 2
        armies == IF num_players >= 4 THEN 4 ELSE IF num_players <= 0 THEN 0 ELSE num_players
        made == {<<who, dx, r>> : who \in 0..(armies - 1), dx \in 0..7, r \in 0..1}
        posOf(t) == <<Armies[t[1] + 1][1] + t[2], Armies[t[1] + 1][2 + t[3]]>>
        pieceOf(t) == Piece(IF t[3] = 0 THEN first_row[t[2] + 1] ELSE "Pawn",
                            t[1], posOf(t), g.objects + t[1] * 16 + t[2] * 2 + t[3])
    IN [g EXCEPT !.num_boards = num_boards,
                 !.board = [pos \in {posOf(t) : t \in made} |->
                               pieceOf(CHOOSE t \in made : posOf(t) = pos)],
                 !.board_size = <<8 * num_boards, 8>>,
                 !.num_players = num_players,
                 !.objects = g.objects + 16 * armies]

(* int(x) for the parameter values of this model: an int, or the text of one *)
IsInt(v) == v[1] = "int" \/ (v[1] = "str" /\ v[2] \in {"0", "1", "2"})
IntOf(v) == IF v[1] = "int" THEN v[2]
            ELSE CASE v[2] = "0" -> 0 [] v[2] = "1" -> 1 [] v[2] = "2" -> 2 [] OTHER -> 0

(* Game.action_reset with its num_boards already an int *)
reset(g, num_boards) ==
    [init_board(g, num_boards) EXCEPT !.player = NoneV,
                                      !.started = FALSE,
                                      !.who_is_who = EmptyDict]

(* Game.action_reset(_id, num_boards=1) *)
action_reset(g, i, params) ==
    IF Len(params) > 1 THEN Raised(g)
    ELSE IF Len(params) = 0 THEN Ret(reset(g, 1), FALSE)
    ELSE IF ~IsInt(params[1]) THEN Raised(g)
    ELSE Ret(reset(g, IntOf(params[1])), FALSE)

(* Game.help_keys *)
help_keys(g) ==
    Say(g, "keys: F1=toggle-fullscreen | F2=choose-set | F3 = reset | F4 = 4-players")

(* Game.help_address *)
help_address(g) ==
    IF ~g.socket THEN g
    ELSE Say(Say(g, "Your address is:"), "ADDRESS " \o ToString(AddrOf(g.id)))

RECURSIVE Join(_, _)
Join(sep, words) ==
    IF Len(words) = 0 THEN ""
    ELSE IF Len(words) = 1 THEN words[1]
    ELSE words[1] \o sep \o Join(sep, Tail(words))

(* Game.action_nick(i, *words) *)
action_nick(g, i, params) ==
    LET joined == Join("-", params)
        name == IF joined = "" THEN "null-boy" ELSE joined
        g1 == Say(g, nick(g, i) \o " is now " \o name)
    IN Ret([g1 EXCEPT !.nicknames = Put(g.nicknames, i, name)], FALSE)

(* Game.action_msg(i, *txt) *)
action_msg(g, i, params) ==
    Ret(Say(g, nick(g, i) \o ": " \o Join(" ", params)), FALSE)

action_move_eager(g, i, params) ==
    IF Len(params) # 2 THEN Raised(g)
    ELSE
      LET src == params[1]
          dst == params[2]
          claimed == {g.who_is_who[k] : k \in DOMAIN g.who_is_who} \ {NoneV}
      IN IF ~g.started /\ ~g.is_replay /\ g.peers # <<>>
         THEN IF Cardinality(claimed) >= 1
              THEN Ret([g EXCEPT !.started = TRUE, !.last_start = g.counter], FALSE)
              ELSE Ret(Say(g, "CANNOT START WITH ORPHANED ARMIES"), FALSE)
         ELSE IF src \in DOMAIN g.board
              THEN LET r == move(g, g.board[src], dst)
                   IN [r EXCEPT !.ret = FALSE]
              ELSE Ret(g, FALSE)

(* Game.action_move(_id, src, dst) *)
action_move(g, i, params) ==
    IF Len(params) # 2 THEN Raised(g)
    ELSE
      LET src == params[1]
          dst == params[2]
          claimed == {g.who_is_who[k] : k \in DOMAIN g.who_is_who} \ {NoneV}
      IN IF ~g.started /\ ~g.is_replay /\ g.peers # <<>>
         THEN IF Cardinality(claimed) = g.num_players
              THEN Ret([g EXCEPT !.started = TRUE, !.last_start = g.counter], FALSE)
              ELSE Ret(Say(g, "CANNOT START WITH ORPHANED ARMIES"), FALSE)
         ELSE IF src \in DOMAIN g.board
              THEN LET r == move(g, g.board[src], dst)
                   IN [r EXCEPT !.ret = FALSE]
              ELSE Ret(g, FALSE)

(* Game.action_welcome, lines 298-304, g1 the game after action_reset *)
welcome_peer(g1, peer, peer_id) ==
    LET g2 == help_keys(Say([g1 EXCEPT !.peers = Append(g1.peers, peer)],
                            "connecting to " \o ToString(peer)))
    IN IF peer_id = g1.id \/ peer \in Range(g1.peers) THEN Ret(g1, FALSE)
       ELSE IF g1.id \in DOMAIN g1.nicknames
            THEN Ret(add_action(g2, Action("nick", <<nick(g2, g1.id)>>)), FALSE)
            ELSE Ret(g2, FALSE)

(* Game.action_welcome(i, peer, peer_id) *)
action_welcome(g, i, params) ==
    IF Len(params) # 2 THEN Raised(g)
    ELSE welcome_peer(reset(g, 1), params[1], params[2])

(* Game.action_forcestart(_id) *)
action_forcestart(g, i, params) ==
    IF Len(params) # 0 THEN Raised(g)
    ELSE Ret([g EXCEPT !.started = TRUE, !.last_start = g.counter], FALSE)

(* Game.action_replay(i) *)
action_replay(g, i, params) ==
    IF Len(params) # 0 THEN Raised(g)
    ELSE IF g.last_start = None THEN Ret(Say(g, "NO GAME WAS PLAYED"), FALSE)
    ELSE IF g.counter \notin DOMAIN g.iter_actions THEN Raised(g)
    ELSE
      LET g1 == [g EXCEPT !.iter_actions[g.counter] =
                              Put(g.iter_actions[g.counter], i, <<Action("endreplay", <<>>)>>),
                          !.replay_counter = g.last_start]
      IN Ret([reset(g1, g1.num_boards) EXCEPT !.is_replay = TRUE], FALSE)

(* Game.action_endreplay(_id) *)
action_endreplay(g, i, params) ==
    IF Len(params) # 0 THEN Raised(g)
    ELSE Ret([g EXCEPT !.is_replay = FALSE], FALSE)

(* Game.action_become(i, player): the assignments, then the line, whose
   player%2 raises on a string *)
action_become(g, i, params) ==
    IF Len(params) # 1 THEN Raised(g)
    ELSE
      LET player == params[1]
          g1 == [g EXCEPT !.player = IF i = g.id THEN player ELSE g.player,
                          !.who_is_who = Put(g.who_is_who, i, player)]
          player_str == IF player = NoneV THEN "spectator"
                        ELSE (IF player[2] % 2 = 0 THEN "White" ELSE "Black")
                             \o "#" \o ToString(player[2] \div 2)
      IN IF player[1] = "str" THEN Raised(g1)
         ELSE Ret(Say(g1, nick(g, i) \o " becomes " \o player_str), FALSE)

(* Game.action_credits(_id) *)
action_credits(g, i, params) ==
    IF Len(params) # 0 THEN Raised(g)
    ELSE Ret([g EXCEPT !.messages = Extend(g.messages,
                <<"Credits:", "Programming", "Chess sets/Graphics", "Logic/Concept",
                  "Programming Infrastructure", "">>)], FALSE)

(* Game.action_help(_id) *)
action_help(g, i, params) ==
    IF Len(params) # 0 THEN Raised(g)
    ELSE Ret(help_address(help_keys(Say(g,
        "commands: <host> | /help | /reset [num-boards] | /nick <nickname> | /replay | /credits"))),
        FALSE)

(* The methods named action_<kind>, and those decorated quiet_action *)
Kinds == {"nick", "msg", "move", "welcome", "reset", "forcestart", "replay",
          "endreplay", "become", "credits", "help"}
Quiet == {"nick", "msg", "move", "welcome", "become"}

(* str.upper on the kinds that are announced *)
Upper(kind) ==
    CASE kind = "reset" -> "RESET"
      [] kind = "forcestart" -> "FORCESTART"
      [] kind = "replay" -> "REPLAY"
      [] kind = "endreplay" -> "ENDREPLAY"
      [] kind = "credits" -> "CREDITS"
      [] kind = "help" -> "HELP"
      [] OTHER -> kind

(* action_func(i, *params) *)
action_func(g, i, a) ==
    CASE a.kind = "nick" -> action_nick(g, i, a.params)
      [] a.kind = "msg" -> action_msg(g, i, a.params)
      [] a.kind = "move" -> action_move(g, i, a.params)
      [] a.kind = "welcome" -> action_welcome(g, i, a.params)
      [] a.kind = "reset" -> action_reset(g, i, a.params)
      [] a.kind = "forcestart" -> action_forcestart(g, i, a.params)
      [] a.kind = "replay" -> action_replay(g, i, a.params)
      [] a.kind = "endreplay" -> action_endreplay(g, i, a.params)
      [] a.kind = "become" -> action_become(g, i, a.params)
      [] a.kind = "credits" -> action_credits(g, i, a.params)
      [] a.kind = "help" -> action_help(g, i, a.params)
      [] OTHER -> Raised(g)

try_except_pass(r, kind) == r.g

(* try: ... except: self.messages.append('action ' + action_type + ' failed') *)
try_except(r, kind) ==
    IF r.exc THEN Say(r.g, "action " \o kind \o " failed") ELSE r.g

dispatch_loud(g, i, a) ==
    try_except(action_func(IF a.kind \in Quiet THEN g
                           ELSE Say(g, nick(g, i) \o " did " \o Upper(a.kind)),
                           i, a),
               a.kind)

(* The body of the for loop of Game.act, for one action of contributor i *)
dispatch(g, i, a) ==
    IF a.kind \notin Kinds THEN Say(g, a.kind \o ": no such action")
    ELSE try_except(action_func(IF a.kind \in Quiet THEN g
                                ELSE Say(g, nick(g, i) \o " did " \o Upper(a.kind)),
                                i, a),
                    a.kind)

(* Game.__init__ of process p, up to the start of its network thread *)
NewGame(p) ==
    LET g0 == [id |-> p, nicknames |-> EmptyDict, messages |-> <<>>, counter |-> 0,
               cur_actions |-> <<>>, iter_actions |-> EmptyDict, peers |-> <<>>,
               connecting |-> FALSE, last_start |-> None, is_replay |-> FALSE,
               replay_counter |-> None, player_freeze |-> EmptyDict, socket |-> FALSE,
               num_boards |-> 1, board |-> EmptyDict, board_size |-> <<8, 8>>,
               num_players |-> 2, player |-> NoneV, started |-> FALSE,
               who_is_who |-> EmptyDict, objects |-> 0]
    IN [reset(g0, 1) EXCEPT !.messages =
            <<"", "Welcome to Chess 2!", "Establishing server connection...">>]


(* ------------------------------------------------------------------ *)
(* main.py: communicate, the outbox insertion of iteration, act         *)
(* ------------------------------------------------------------------ *)
(* range(max(0, counter-latency), counter+latency) *)
Window(g) == Max2(0, g.counter - latency)..(g.counter + latency - 1)

(* iter_actions.setdefault(i, {}).setdefault(self.id, []) for i in the window *)
WithOwnWindow(g) ==
    LET own(i) == IF i \notin DOMAIN g.iter_actions THEN [x \in {g.id} |-> <<>>]
                  ELSE IF g.id \in DOMAIN g.iter_actions[i] THEN g.iter_actions[i]
                  ELSE Put(g.iter_actions[i], g.id, <<>>)
    IN [g EXCEPT !.iter_actions =
           [i \in DOMAIN g.iter_actions \cup Window(g) |->
               IF i \in Window(g) THEN own(i) ELSE g.iter_actions[i]]]

(* The list of (i, actions) that communicate marshals, after the setdefaults *)
PacketWindow(g) ==
    LET lo == Max2(0, g.counter - latency)
        g1 == WithOwnWindow(g)
    IN [k \in 1..Cardinality(Window(g)) |-> <<lo + k - 1, g1.iter_actions[lo + k - 1][g.id]>>]

(* A datagram in flight: (self.id, 'HELLO') or (self.id, window), with the
   addresses recvfrom and sendto see. *)
Hello(p, to) == [hello |-> TRUE, id |-> p, src |-> AddrOf(p), to |-> to, window |-> <<>>]
Packet(g, to) ==
    [hello |-> FALSE, id |-> g.id, src |-> AddrOf(g.id), to |-> to, window |-> PacketWindow(g)]

RECURSIVE Welcomed_next(_, _, _, _)
Welcomed_next(g, i, peer, n) ==
    IF n = 0 THEN g
    ELSE Welcomed_next(help_keys(Say([g EXCEPT !.connecting = FALSE,
                                                !.counter = i + 1,
                                                !.peers = Append(g.peers, peer)],
                                     "connection successful")),
                       i, peer, n - 1)

(* The body of "if action_type == 'welcome'", run once per welcome of the list *)
RECURSIVE Welcomed(_, _, _, _)
Welcomed(g, i, peer, n) ==
    IF n = 0 THEN g
    ELSE Welcomed(help_keys(Say([g EXCEPT !.connecting = FALSE,
                                           !.counter = i,
                                           !.peers = Append(g.peers, peer)],
                                "connection successful")),
                  i, peer, n - 1)

(* One round of "for i, actions in peer_iter_actions" *)
IngestEntry(g, d, i, actions) ==
    LET at == Get(g.iter_actions, i, EmptyDict)
        g1 == [g EXCEPT !.iter_actions = Put(g.iter_actions, i, Put(at, d.id, actions))]
        welcomes == Cardinality({k \in DOMAIN actions : actions[k].kind = "welcome"})
    IN IF g.connecting THEN Welcomed(g1, i, d.src, welcomes) ELSE g1

RECURSIVE IngestWindow(_, _, _)
IngestWindow(g, d, k) ==
    IF k > Len(d.window) THEN g
    ELSE IngestWindow(IngestEntry(g, d, d.window[k][1], d.window[k][2]), d, k + 1)

Ingest_eager(g, d) ==
    IF d.hello THEN add_action([g EXCEPT !.peers = Append(g.peers, d.src)],
                               Action("welcome", <<d.src, d.id>>))
    ELSE IngestWindow(g, d, 1)

(* One round of "while poll(self.socket)" *)
Ingest(g, d) ==
    IF d.hello THEN add_action(g, Action("welcome", <<d.src, d.id>>))
    ELSE IngestWindow(g, d, 1)

RECURSIVE Drain(_, _)
Drain(g, rcvd) == IF rcvd = <<>> THEN g ELSE Drain(Ingest(g, Head(rcvd)), Tail(rcvd))

communicate_keep(g, rcvd) ==
    IF ~g.socket THEN g
    ELSE Drain(WithOwnWindow(g), rcvd)

(* Game.communicate, given the datagrams the socket hands over, in order *)
communicate(g, rcvd) ==
    IF ~g.socket THEN g
    ELSE LET g1 == Drain(WithOwnWindow(g), rcvd)
         IN IF g.connecting /\ ~g1.connecting
            THEN [g1 EXCEPT !.iter_actions = EmptyDict]
            ELSE g1

(* Game.iteration, lines 522-524: the outbox becomes the local contribution
   of tick counter+latency, unless that tick has one. *)
insert_outbox(g) ==
    LET t == g.counter + latency
        at == Get(g.iter_actions, t, EmptyDict)
    IN IF g.id \in DOMAIN at
       THEN [g EXCEPT !.iter_actions = Put(g.iter_actions, t, at)]
       ELSE [g EXCEPT !.iter_actions = Put(g.iter_actions, t, Put(at, g.id, g.cur_actions)),
                      !.cur_actions = <<>>]

RECURSIVE SortedItems_desc(_, _)
SortedItems_desc(d, ids) ==
    IF ids = {} THEN <<>>
    ELSE LET i == CHOOSE i \in ids : \A j \in ids : i >= j
         IN [k \in DOMAIN d[i] |-> [i |-> i, action |-> d[i][k]]]
            \o SortedItems_desc(d, ids \ {i})

(* sorted(d.items()), each action paired with its contributor *)
RECURSIVE SortedItems(_, _)
SortedItems(d, ids) ==
    IF ids = {} THEN <<>>
    ELSE LET i == CHOOSE i \in ids : \A j \in ids : i <= j
         IN [k \in DOMAIN d[i] |-> [i |-> i, action |-> d[i][k]]]
            \o SortedItems(d, ids \ {i})

all_actions(d) == SortedItems(d, DOMAIN d)

Sealable_any(g) ==
    Cardinality(DOMAIN Get(g.iter_actions, g.counter, EmptyDict)) >= 1

Sealable_lax(g) ==
    Cardinality(DOMAIN Get(g.iter_actions, g.counter, EmptyDict)) >= Len(g.peers)

(* The gate of Game.act: contributions of the current tick against len(peers) *)
Sealable(g) ==
    Cardinality(DOMAIN Get(g.iter_actions, g.counter, EmptyDict)) > Len(g.peers)


(* ------------------------------------------------------------------ *)
(* main.py: the event handlers (pygame events are the environment)      *)
(* ------------------------------------------------------------------ *)
(* A user input: the handler it reaches and what the user typed or pointed
   at; at is the local tick from which the user gives it. *)
Input(at, key, action, addr, src, dst) ==
    [at |-> at, key |-> key, action |-> action, addr |-> addr, src |-> src, dst |-> dst]
NoPos == <<None, None>>
Command(at, kind, params) == Input(at, "command", Action(kind, params), None, NoPos, NoPos)
Chat(at, text, addr) == Input(at, "text", Action("msg", <<text>>), addr, NoPos, NoPos)
Key(at, key) == Input(at, key, Action("", <<>>), None, NoPos, NoPos)
Mouse(at, src, dst) == Input(at, "MOUSEBUTTONUP", Action("", <<>>), None, src, dst)

(* Game.K_RETURN: "/kind params" queues that action; other text is chat once
   a peer is known, else the address of a friend (ev.addr is what the lookup
   of connect_thread_go answers), for which the connect thread is started. *)
K_RETURN(g, ev) ==
    IF ev.key = "command" THEN add_action(g, ev.action)
    ELSE IF g.peers # <<>> THEN add_action(g, ev.action)
    ELSE g

StartsThread(g, ev) == ev.key = "text" /\ g.peers = <<>>

(* Game.K_F2 *)
K_F2(g) ==
    LET player == IF g.player = NoneV THEN 0 ELSE g.player[2] + 1
    IN IF g.started \/ g.is_replay THEN Say(g, "Cannot change player after start!")
       ELSE add_action(g, Action("become",
                <<(IF player = g.num_players THEN NoneV ELSE IntV(player))>>))

(* Game.K_F3, Game.K_F4 *)
K_F3(g) == add_action(g, Action("reset", <<IntV(1)>>))
K_F4(g) == add_action(g, Action("reset", <<IntV(2)>>))

(* Game.MOUSEBUTTONUP on dst with the piece on src selected; update_dst keeps
   a selection only of a piece of the local player that can move to dst. *)
MOUSEBUTTONUP(g, src, dst) ==
    IF /\ src \in DOMAIN g.board
       /\ g.player = IntV(g.board[src].player)
       /\ dst \in moves(g, g.board[src])
    THEN add_action(g, MoveAction(src, dst, g.board[src]))
    ELSE g

(* event_handlers[event.type](self, event) *)
handle_event(g, ev) ==
    CASE ev.key \in {"command", "text"} -> K_RETURN(g, ev)
      [] ev.key = "K_F2" -> K_F2(g)
      [] ev.key = "K_F3" -> K_F3(g)
      [] ev.key = "K_F4" -> K_F4(g)
      [] ev.key = "MOUSEBUTTONUP" -> MOUSEBUTTONUP(g, ev.src, ev.dst)
      [] OTHER -> g

(* Game.setup_socket, once the socket is bound and the address registered *)
setup_socket(g) ==
    LET g1 == help_address(Say([g EXCEPT !.socket = TRUE], ""))
    IN Say(Say(g1, ""), "Type the address of a friend to play with them")

(* ------------------------------------------------------------------ *)
(* The state machine                                                    *)
(* ------------------------------------------------------------------ *)
VARIABLES
    game,      \* game[p]: the Game object of process p
    net,       \* the datagrams in flight
    pc,        \* pc[p]: where p's main loop stands
    todo,      \* todo[p]: the actions act has still to apply in this tick
    thread,    \* thread[p]: the addresses p's connect threads still have to greet
    inputs,    \* inputs[p]: what p's user will still do
    tick_log,  \* history: the tick p sealed last and what it has applied of it,
               \* the pieces it has moved, the processes whose HELLO it has read
    hist,      \* history: p's state after each tick it sealed with a peer known
    joined     \* history: the counter of p before and after its handshake

vars == <<game, net, pc, todo, thread, inputs, tick_log, hist, joined>>

(* Bounds of the model *)
MaxInFlight == 1
MaxSetupTick == 0
MaxTick == 8
MaxSkew == 2

RECURSIVE Orders(_)
Orders(S) == IF S = {} THEN {<<>>}
             ELSE UNION {{<<x>> \o t : t \in Orders(S \ {x})} : x \in S}

Inbox(p) == {d \in net : d.to = AddrOf(p)}

(* sendto, one datagram after the other; a datagram is lost when MaxInFlight
   datagrams of its sender to its destination are in flight. *)
RECURSIVE SendAll(_, _)
SendAll(n, ds) ==
    IF ds = <<>> THEN n
    ELSE LET d == Head(ds)
         IN SendAll(IF Cardinality({e \in n : e.src = d.src /\ e.to = d.to}) < MaxInFlight
                    THEN n \cup {d} ELSE n, Tail(ds))

Due(p) == inputs[p] # <<>> /\ Head(inputs[p]).at <= game[p].counter

NoLog == [tick |-> None, peers |-> <<>>, sealed |-> EmptyDict, replayed |-> EmptyDict,
          done |-> <<>>, shifted |-> EmptyDict, greeted |-> {}]

(* The pieces (by object) that stand on another square of board b1 than of
   board b0, each with the tick t; the others keep what was noted of them. *)
Shifted(was, b0, b1, t) ==
    LET at0 == {b0[pos].id : pos \in DOMAIN b0}
        now == {b1[pos].id : pos \in {pos \in DOMAIN b1 :
                    /\ b1[pos].id \in at0
                    /\ (pos \notin DOMAIN b0 \/ b0[pos].id # b1[pos].id)}}
    IN [i \in DOMAIN was \cup now |-> IF i \in now THEN t ELSE was[i]]

(* What hist keeps of a process after a tick; the identity of a piece object
   is local to its process, the rest of the piece is compared between peers. *)
Snapshot(g, log) ==
    [peers |-> log.peers, done |-> log.done,
     board |-> [pos \in DOMAIN g.board |-> [g.board[pos] EXCEPT !.id = None]],
     started |-> g.started, is_replay |-> g.is_replay]

Remember(h, g, log) ==
    IF log.peers = <<>> THEN h ELSE Put(h, log.tick, Snapshot(g, log))

(* The network thread: setup_socket returns. *)
NetThread(p) ==
    /\ ~game[p].socket
    /\ pc[p] # "crashed"
    /\ game[p].counter <= MaxSetupTick
    /\ game' = [game EXCEPT ![p] = setup_socket(game[p])]
    /\ UNCHANGED <<net, pc, todo, thread, inputs, tick_log, hist, joined>>

(* Game.connect_thread_go *)
ConnectThread(p) ==
    /\ thread[p] # {}
    /\ \E addr \in thread[p] :
         /\ thread' = [thread EXCEPT ![p] = thread[p] \ {addr}]
         /\ IF game[p].socket
            THEN /\ net' = SendAll(net, <<Hello(p, addr)>>)
                 /\ game' = [game EXCEPT ![p].connecting = TRUE]
            ELSE UNCHANGED <<net, game>>
    /\ UNCHANGED <<pc, todo, inputs, tick_log, hist, joined>>

(* Game.communicate: the window is sent to every peer, then the socket is
   drained ("while poll(self.socket)") of the datagrams that have arrived, in
   the order they arrived.  net holds the datagrams that have arrived and are
   not read yet; a datagram that comes late is one sent late or lost. *)
Communicate(p) ==
    /\ pc[p] \in {"communicate", "events"}
    /\ ~Due(p)
    /\ \E rcvd \in Orders(IF game[p].socket THEN Inbox(p) ELSE {}) :
         LET g == game[p]
             R == Range(rcvd)
             sent == IF g.socket THEN [k \in DOMAIN g.peers |-> Packet(g, g.peers[k])]
                     ELSE <<>>
             g1 == communicate(g, rcvd)
         IN /\ game' = [game EXCEPT ![p] = g1]
            /\ net' = SendAll(net, sent) \ R
            /\ joined' = [joined EXCEPT ![p] =
                   IF g.connecting /\ ~g1.connecting THEN <<g.counter, g1.counter>>
                   ELSE joined[p]]
            /\ tick_log' = [tick_log EXCEPT ![p].greeted =
                   tick_log[p].greeted \cup {d.id : d \in {d \in R : d.hello}}]
    /\ pc' = [pc EXCEPT ![p] = "insert"]
    /\ UNCHANGED <<todo, thread, inputs, hist>>

(* Game.iteration, lines 522-524 *)
Insert(p) ==
    /\ pc[p] = "insert"
    /\ game' = [game EXCEPT ![p] = insert_outbox(game[p])]
    /\ pc' = [pc EXCEPT ![p] = "act"]
    /\ UNCHANGED <<net, todo, thread, inputs, tick_log, hist, joined>>

(* Game.act up to its for loop: the grace ticks, the gate, all_actions.  A
   replay_counter that is no key of iter_actions raises KeyError outside
   any try: the process ends. *)
Act(p, horizon) ==
    /\ pc[p] = "act"
    /\ game[p].counter < horizon
    /\ LET g == game[p]
           now == Get(g.iter_actions, g.counter, EmptyDict)
           old == IF g.is_replay THEN Get(g.iter_actions, g.replay_counter, EmptyDict)
                  ELSE EmptyDict
           acts == all_actions(now) \o all_actions(old)
           g1 == IF g.is_replay THEN [g EXCEPT !.replay_counter = g.replay_counter + 1] ELSE g
           log == [tick |-> g.counter, peers |-> g.peers, sealed |-> now,
                   replayed |-> old, done |-> <<>>, shifted |-> tick_log[p].shifted,
                   greeted |-> tick_log[p].greeted]
       IN IF g.counter < latency
          THEN /\ game' = [game EXCEPT ![p].counter = g.counter + 1]
               /\ pc' = [pc EXCEPT ![p] = "events"]
               /\ UNCHANGED <<todo, tick_log, hist>>
          ELSE IF ~Sealable(g)
          THEN /\ pc' = [pc EXCEPT ![p] = "events"]
               /\ UNCHANGED <<game, todo, tick_log, hist>>
          ELSE IF g.is_replay /\ g.replay_counter \notin DOMAIN g.iter_actions
          THEN /\ pc' = [pc EXCEPT ![p] = "crashed"]
               /\ UNCHANGED <<game, todo, tick_log, hist>>
          ELSE IF acts = <<>>
          THEN /\ game' = [game EXCEPT ![p] = [g1 EXCEPT !.counter = g.counter + 1]]
               /\ pc' = [pc EXCEPT ![p] = "events"]
               /\ tick_log' = [tick_log EXCEPT ![p] = log]
               /\ hist' = [hist EXCEPT ![p] = Remember(hist[p], g1, log)]
               /\ UNCHANGED todo
          ELSE /\ game' = [game EXCEPT ![p] = g1]
               /\ pc' = [pc EXCEPT ![p] = "dispatch"]
               /\ todo' = [todo EXCEPT ![p] = acts]
               /\ tick_log' = [tick_log EXCEPT ![p] = log]
               /\ UNCHANGED hist
    /\ UNCHANGED <<net, thread, inputs, joined>>

(* The step of p that leaves its Game object as g1 after the action e *)
Dispatched(p, g1, e, last) ==
    LET log == [tick_log[p] EXCEPT
                   !.done = Append(tick_log[p].done, e),
                   !.shifted = Shifted(tick_log[p].shifted, game[p].board, g1.board,
                                       g1.counter)]
    IN /\ game' = [game EXCEPT ![p] =
              IF last THEN [g1 EXCEPT !.counter = g1.counter + 1] ELSE g1]
       /\ todo' = [todo EXCEPT ![p] = Tail(todo[p])]
       /\ tick_log' = [tick_log EXCEPT ![p] = log]
       /\ pc' = [pc EXCEPT ![p] = IF last THEN "events" ELSE "dispatch"]
       /\ hist' = [hist EXCEPT ![p] = IF last THEN Remember(hist[p], g1, log) ELSE hist[p]]

(* One round of the for loop of Game.act; after the last, counter += 1. *)
Dispatch(p) ==
    /\ pc[p] = "dispatch"
    /\ Dispatched(p, dispatch(game[p], Head(todo[p]).i, Head(todo[p]).action),
                  Head(todo[p]), Len(todo[p]) = 1)
    /\ UNCHANGED <<net, thread, inputs, joined>>

(* One pygame event reaches its handler. *)
UserEvent(p) ==
    /\ pc[p] = "events"
    /\ Due(p)
    /\ LET ev == Head(inputs[p])
       IN /\ game' = [game EXCEPT ![p] = handle_event(game[p], ev)]
          /\ thread' = [thread EXCEPT ![p] =
                 IF StartsThread(game[p], ev) THEN thread[p] \cup {ev.addr} ELSE thread[p]]
    /\ inputs' = [inputs EXCEPT ![p] = Tail(inputs[p])]
    /\ UNCHANGED <<net, pc, todo, tick_log, hist, joined>>

(* p is in the part of its iteration that touches nothing but its own Game
   object.  Such steps commute with every step of another process, so the
   larger specifications are explored with them taken first: only the order
   of the steps that send or receive is left open. *)
Busy(p, horizon) ==
    \/ pc[p] \in {"insert", "dispatch"}
    \/ pc[p] = "act" /\ game[p].counter < horizon
    \/ pc[p] = "events" /\ Due(p)

Turn(p, procs, horizon) == \A q \in procs \ {p} : ~Busy(q, horizon)

(* The loops are paced alike (clock.tick(30)): the larger specifications are
   explored with the processes started together, their sockets bound before
   their loops begin, and no counter more than MaxSkew ticks ahead of
   another when its process begins an iteration. *)
Ahead(p, procs) == \E q \in procs : game[p].counter > game[q].counter + MaxSkew

(* ------------------------------------------------------------------ *)
(* Spec: two processes, one of which greets the other                   *)
(* ------------------------------------------------------------------ *)
Procs == {1, 2}

Idle == [p \in Ids |-> <<>>]

(* What the users do: the joiner types the host's address; the host starts a
   game and asks for its replay. *)
Sessions ==
    { [Idle EXCEPT ![1] = <<Command(1, "forcestart", <<>>), Command(2, "replay", <<>>)>>,
                   ![2] = <<Chat(1, "host", AddrOf(1))>>],
      [Idle EXCEPT ![2] = <<Command(1, "forcestart", <<>>), Command(2, "replay", <<>>)>>,
                   ![1] = <<Chat(1, "host", AddrOf(2))>>] }

InitWith(scripts) ==
    /\ game = [p \in Ids |-> NewGame(p)]
    /\ net = {}
    /\ pc = [p \in Ids |-> "communicate"]
    /\ todo = [p \in Ids |-> <<>>]
    /\ thread = [p \in Ids |-> {}]
    /\ inputs \in scripts
    /\ tick_log = [p \in Ids |-> NoLog]
    /\ hist = [p \in Ids |-> EmptyDict]
    /\ joined = [p \in Ids |-> <<>>]

Init == InitWith(Sessions)

Next ==
    \E p \in Procs :
        \/ NetThread(p)
        \/ ConnectThread(p)
        \/ Communicate(p)
        \/ Insert(p)
        \/ Act(p, MaxTick)
        \/ Dispatch(p)
        \/ UserEvent(p)

Spec == Init /\ [][Next]_vars

(* ------------------------------------------------------------------ *)
(* SpecParty: three processes, two of which greet the third             *)
(* ------------------------------------------------------------------ *)
MaxPartyTick == 7

Parties ==
    { [Idle EXCEPT ![2] = <<Chat(1, "host", AddrOf(1))>>,
                   ![3] = <<Chat(1, "host", AddrOf(1))>>] }

InitParty == InitWith(Parties)

NextParty ==
    \E p \in Ids :
        \/ Turn(p, Ids, MaxPartyTick) /\ NetThread(p)
        \/ Turn(p, Ids, MaxPartyTick) /\ game[p].socket /\ ConnectThread(p)
        \/ Turn(p, Ids, MaxPartyTick) /\ game[p].socket /\ ~Ahead(p, Ids) /\ Communicate(p)
        \/ Turn(p, Ids, MaxPartyTick) /\ Insert(p)
        \/ Turn(p, Ids, MaxPartyTick) /\ Act(p, MaxPartyTick)
        \/ Turn(p, Ids, MaxPartyTick) /\ Dispatch(p)
        \/ Turn(p, Ids, MaxPartyTick) /\ UserEvent(p)

SpecParty == InitParty /\ [][NextParty]_vars

(* ------------------------------------------------------------------ *)
(* SpecSolo: one process whose socket is not bound, playing by itself    *)
(* ------------------------------------------------------------------ *)
MaxSoloTick == 353

(* F2 makes the user White#0 (applied at tick 6); the inputs that follow are
   given from tick 7 on. *)
Games ==
    { \* a reset and a move of the king's pawn in one round of events
      [Idle EXCEPT ![1] = <<Key(1, "K_F2"), Key(7, "K_F3"),
                            Mouse(7, <<4, 1>>, <<4, 2>>)>>],
      \* a move, and a second one while the player is frozen
      [Idle EXCEPT ![1] = <<Key(1, "K_F2"), Mouse(7, <<4, 1>>, <<4, 3>>),
                            Mouse(8, <<3, 1>>, <<3, 2>>),
                            Mouse(32, <<3, 1>>, <<3, 2>>)>>],
      \* knight, pawn and bishop leave the king's side; then a pawn move and
      \* the castling jump in one round of events
      [Idle EXCEPT ![1] = <<Key(1, "K_F2"), Mouse(7, <<6, 0>>, <<5, 2>>),
                            Mouse(32, <<6, 1>>, <<6, 2>>),
                            Mouse(57, <<5, 0>>, <<6, 1>>),
                            Mouse(82, <<0, 1>>, <<0, 2>>),
                            Mouse(82, <<4, 0>>, <<6, 0>>)>>],
      \* commands: an unknown kind, a reset that cannot parse its argument,
      \* a become that fails half way, then chat
      [Idle EXCEPT ![1] = <<Command(1, "frobnicate", <<>>),
                            Command(1, "reset", <<StrV("abc")>>),
                            Command(1, "msg", <<"hi">>),
                            Command(2, "become", <<StrV("0")>>),
                            Command(2, "nick", <<"bob">>),
                            Command(3, "help", <<>>),
                            Command(3, "credits", <<>>),
                            Command(3, "frobnicate", <<>>)>>],
      \* the king's side is cleared and the King castles; then the rook it
      \* brought over, the queen's knight, bishop and the queen leave the
      \* first row, and the King jumps again, toward the other rook
      [Idle EXCEPT ![1] = <<Key(1, "K_F2"), Mouse(7, <<6, 0>>, <<7, 2>>),
                            Mouse(32, <<6, 1>>, <<6, 2>>),
                            Mouse(57, <<5, 0>>, <<6, 1>>),
                            Mouse(82, <<4, 0>>, <<6, 0>>),
                            Mouse(82, <<5, 1>>, <<5, 2>>),
                            Mouse(107, <<5, 0>>, <<5, 1>>),
                            Mouse(132, <<1, 0>>, <<0, 2>>),
                            Mouse(157, <<3, 1>>, <<3, 2>>),
                            Mouse(182, <<2, 0>>, <<4, 2>>),
                            Mouse(207, <<3, 0>>, <<3, 1>>),
                            Mouse(232, <<6, 0>>, <<4, 0>>)>>],
      \* the king's pawn walks up the board, takes a pawn and then the King
      \* of the other side, on its far rank
      [Idle EXCEPT ![1] = <<Key(1, "K_F2"), Mouse(7, <<4, 1>>, <<4, 3>>),
                            Mouse(92, <<4, 3>>, <<4, 4>>),
                            Mouse(177, <<4, 4>>, <<4, 5>>),
                            Mouse(262, <<4, 5>>, <<5, 6>>),
                            Mouse(347, <<5, 6>>, <<4, 7>>)>>],
      \* the queen leaves by the king's pawn's square, takes a pawn and then
      \* the King of the other side
      [Idle EXCEPT ![1] = <<Key(1, "K_F2"), Mouse(7, <<4, 1>>, <<4, 3>>),
                            Mouse(32, <<3, 0>>, <<7, 4>>),
                            Mouse(117, <<7, 4>>, <<5, 6>>),
                            Mouse(202, <<5, 6>>, <<4, 7>>)>>] }

InitSolo == InitWith(Games)

NextSolo ==
    \/ Communicate(1)
    \/ Insert(1)
    \/ Act(1, MaxSoloTick)
    \/ Dispatch(1)
    \/ UserEvent(1)

SpecSolo == InitSolo /\ [][NextSolo]_vars

(* ------------------------------------------------------------------ *)
(* SpecChat: two processes that chat while a replay runs                 *)
(* ------------------------------------------------------------------ *)
MaxChatTick == 12

(* The host starts a game, asks for its replay and chats; the joiner types
   the host's address and then two lines of chat. *)
HostTalk == <<Command(1, "forcestart", <<>>), Command(4, "replay", <<>>),
              Command(6, "msg", <<"ho">>)>>
JoinerTalk(host) == <<Chat(1, "host", AddrOf(host)), Command(5, "msg", <<"hi">>),
                      Command(5, "msg", <<"yo">>)>>

Chats ==
    { [Idle EXCEPT ![1] = HostTalk, ![2] = JoinerTalk(1)],
      [Idle EXCEPT ![2] = HostTalk, ![1] = JoinerTalk(2)] }

InitChat == InitWith(Chats)

NextChat ==
    \E p \in Procs :
        \/ Turn(p, Procs, MaxChatTick) /\ NetThread(p)
        \/ Turn(p, Procs, MaxChatTick) /\ game[p].socket /\ ConnectThread(p)
        \/ Turn(p, Procs, MaxChatTick) /\ game[p].socket /\ ~Ahead(p, Procs) /\ Communicate(p)
        \/ Turn(p, Procs, MaxChatTick) /\ Insert(p)
        \/ Turn(p, Procs, MaxChatTick) /\ Act(p, MaxChatTick)
        \/ Turn(p, Procs, MaxChatTick) /\ Dispatch(p)
        \/ Turn(p, Procs, MaxChatTick) /\ UserEvent(p)

SpecChat == InitChat /\ [][NextChat]_vars

(* ------------------------------------------------------------------ *)
(* SpecMatch: two processes that claim their armies, start and replay   *)
(* ------------------------------------------------------------------ *)
MaxMatchTick == 29

(* The host becomes White#0 and tries a first move before and after the
   joiner is Black#0 (F2 twice: White#0, then Black#0), then asks for the
   replay of the session that move began. *)
HostPlay == <<Key(9, "K_F2"), Mouse(15, <<4, 1>>, <<4, 2>>),
              Mouse(21, <<4, 1>>, <<4, 2>>), Command(22, "replay", <<>>)>>
JoinerPlay(host) == <<Chat(1, "host", AddrOf(host)), Key(9, "K_F2"), Key(15, "K_F2")>>

Matches == { [Idle EXCEPT ![1] = HostPlay, ![2] = JoinerPlay(1)] }

InitMatch == InitWith(Matches)

(* p is more than a tick ahead of another process *)
Leads(p, procs) == \E q \in procs : game[p].counter > game[q].counter + 1

(* No process begins a frame while it leads, and the lookup of the connect
   thread answers within the frame it was asked in. *)
NextMatch ==
    \E p \in Procs :
        \/ Turn(p, Procs, MaxMatchTick) /\ NetThread(p)
        \/ Turn(p, Procs, MaxMatchTick) /\ game[p].socket /\ ConnectThread(p)
        \/ Turn(p, Procs, MaxMatchTick) /\ game[p].socket /\ ~Leads(p, Procs)
              /\ thread[p] = {} /\ Communicate(p)
        \/ Turn(p, Procs, MaxMatchTick) /\ Insert(p)
        \/ Turn(p, Procs, MaxMatchTick) /\ Act(p, MaxMatchTick)
        \/ Turn(p, Procs, MaxMatchTick) /\ Dispatch(p)
        \/ Turn(p, Procs, MaxMatchTick) /\ UserEvent(p)

SpecMatch == InitMatch /\ [][NextMatch]_vars

(* ------------------------------------------------------------------ *)
(* SpecMeet: two processes of which one, or each, greets the other      *)
(* ------------------------------------------------------------------ *)
MaxMeetTick == 9

(* One user types the address of the other, or both do. *)
Meetings ==
    { [Idle EXCEPT ![2] = <<Chat(1, "friend", AddrOf(1))>>],
      [Idle EXCEPT ![1] = <<Chat(1, "friend", AddrOf(2))>>,
                   ![2] = <<Chat(1, "friend", AddrOf(1))>>] }

InitMeet == InitWith(Meetings)

NextMeet ==
    \E p \in Procs :
        \/ Turn(p, Procs, MaxMeetTick) /\ NetThread(p)
        \/ Turn(p, Procs, MaxMeetTick) /\ game[p].socket /\ ConnectThread(p)
        \/ Turn(p, Procs, MaxMeetTick) /\ game[p].socket /\ ~Ahead(p, Procs) /\ Communicate(p)
        \/ Turn(p, Procs, MaxMeetTick) /\ Insert(p)
        \/ Turn(p, Procs, MaxMeetTick) /\ Act(p, MaxMeetTick)
        \/ Turn(p, Procs, MaxMeetTick) /\ Dispatch(p)
        \/ Turn(p, Procs, MaxMeetTick) /\ UserEvent(p)

SpecMeet == InitMeet /\ [][NextMeet]_vars

(* ------------------------------------------------------------------ *)
(* SpecRerun: a replay is asked for in a session of two, one of which   *)
(* has begun a game by itself before it greets the other                *)
(* ------------------------------------------------------------------ *)
MaxRerunTick == 10

(* The host begins a game and asks for its replay while the joiner greets
   it; or the joiner begins a game by itself, greets a host that was
   launched later, and the host asks for a replay. *)
Reruns ==
    { [Idle EXCEPT ![1] = <<Command(1, "forcestart", <<>>), Command(2, "replay", <<>>)>>,
                   ![2] = <<Chat(1, "host", AddrOf(1))>>],
      [Idle EXCEPT ![1] = <<Command(1, "replay", <<>>)>>,
                   ![2] = <<Chat(1, "host", AddrOf(1)), Command(2, "forcestart", <<>>)>>] }

InitRerun == InitWith(Reruns)

(* The processes are launched by their users whenever they like: no counter
   is held back for another's. *)
NextRerun ==
    \E p \in Procs :
        \/ Turn(p, Procs, MaxRerunTick) /\ NetThread(p)
        \/ Turn(p, Procs, MaxRerunTick) /\ game[p].socket /\ ConnectThread(p)
        \/ Turn(p, Procs, MaxRerunTick) /\ game[p].socket /\ Communicate(p)
        \/ Turn(p, Procs, MaxRerunTick) /\ Insert(p)
        \/ Turn(p, Procs, MaxRerunTick) /\ Act(p, MaxRerunTick)
        \/ Turn(p, Procs, MaxRerunTick) /\ Dispatch(p)
        \/ Turn(p, Procs, MaxRerunTick) /\ UserEvent(p)

SpecRerun == InitRerun /\ [][NextRerun]_vars

(* ------------------------------------------------------------------ *)
(* SpecLag: two processes launched at different times, of which one, or *)
(* each, greets the other                                               *)
(* ------------------------------------------------------------------ *)
MaxLagTick == 12
LaunchLag == 6

InitLag == InitWith(Meetings)

(* counter counts the iterations of its own process.  Process 1 is launched
   LaunchLag iterations before the others; the loops are paced alike until
   a handshake completes, and as fast or slow as they like from then on. *)
SinceLaunch(p) == game[p].counter + (IF p = 1 THEN 0 ELSE LaunchLag)

Early(p, procs) ==
    /\ \A q \in procs : joined[q] = <<>>
    /\ \E q \in procs : SinceLaunch(p) > SinceLaunch(q) + MaxSkew

NextLag ==
    \E p \in Procs :
        \/ Turn(p, Procs, MaxLagTick) /\ NetThread(p)
        \/ Turn(p, Procs, MaxLagTick) /\ game[p].socket /\ ConnectThread(p)
        \/ Turn(p, Procs, MaxLagTick) /\ game[p].socket /\ ~Early(p, Procs) /\ Communicate(p)
        \/ Turn(p, Procs, MaxLagTick) /\ Insert(p)
        \/ Turn(p, Procs, MaxLagTick) /\ Act(p, MaxLagTick)
        \/ Turn(p, Procs, MaxLagTick) /\ Dispatch(p)
        \/ Turn(p, Procs, MaxLagTick) /\ UserEvent(p)

SpecLag == InitLag /\ [][NextLag]_vars

(* ------------------------------------------------------------------ *)
(* SpecRelay: a process that has welcomed a joiner greets a third one   *)
(* ------------------------------------------------------------------ *)
MaxRelayTick == 7

Relays ==
    { [Idle EXCEPT ![1] = <<Chat(1, "host", AddrOf(3))>>,
                   ![2] = <<Chat(1, "host", AddrOf(1))>>] }

InitRelay == InitWith(Relays)

(* K_RETURN in the tick the handshake of p led to: the user reads
   'connection successful' and types a line of chat. *)
Greets(p) ==
    /\ pc[p] = "events"
    /\ ~Due(p)
    /\ joined[p] # <<>>
    /\ game[p].counter = joined[p][2]
    /\ game[p].cur_actions = <<>>
    /\ game' = [game EXCEPT ![p] = handle_event(game[p], Chat(game[p].counter, "hi", None))]
    /\ UNCHANGED <<net, pc, todo, thread, inputs, tick_log, hist, joined>>

NextRelay ==
    \E p \in Ids :
        \/ Turn(p, Ids, MaxRelayTick) /\ NetThread(p)
        \/ Turn(p, Ids, MaxRelayTick) /\ game[p].socket /\ ConnectThread(p)
        \/ Turn(p, Ids, MaxRelayTick) /\ game[p].socket /\ ~Leads(p, Ids) /\ thread[p] = {} /\ Communicate(p)
        \/ Turn(p, Ids, MaxRelayTick) /\ Insert(p)
        \/ Turn(p, Ids, MaxRelayTick) /\ Act(p, MaxRelayTick)
        \/ Turn(p, Ids, MaxRelayTick) /\ Dispatch(p)
        \/ Turn(p, Ids, MaxRelayTick) /\ UserEvent(p)
        \/ Turn(p, Ids, MaxRelayTick) /\ Greets(p)

SpecRelay == InitRelay /\ [][NextRelay]_vars


(* ------------------------------------------------------------------ *)
(* SpecLive: three processes, two of which greet the third, with every  *)
(* loop iterating for ever and every datagram read                      *)
(* ------------------------------------------------------------------ *)
MaxLiveTick == 8

InitLive == InitWith(Parties)

(* p waits at the gate of Game.act *)
Gated(p) == game[p].counter >= latency /\ ~Sealable(game[p])

(* p is ahead of a process that is free to advance *)
Outruns(p, procs) ==
    \E q \in procs : game[p].counter > game[q].counter /\ ~Gated(q)

(* q is inside a frame: the other processes wait for its end *)
Framing(q) ==
    \/ pc[q] \in {"insert", "act", "dispatch"}
    \/ pc[q] = "events" /\ Due(q)

TurnLive(p) == \A q \in Ids \ {p} : ~Framing(q)

(* Game.act at the last tick the model counts: the frame ends, the loop
   goes on with the same counter and keeps sending and reading. *)
Park(p) ==
    /\ pc[p] = "act"
    /\ game[p].counter >= MaxLiveTick
    /\ pc' = [pc EXCEPT ![p] = "events"]
    /\ UNCHANGED <<game, net, todo, thread, inputs, tick_log, hist, joined>>

(* A step of the main loop of p or of one of its threads *)
LoopLive(p) ==
    \/ TurnLive(p) /\ NetThread(p)
    \/ TurnLive(p) /\ game[p].socket /\ ConnectThread(p)
    \/ TurnLive(p) /\ game[p].socket /\ ~Outruns(p, Ids) /\ thread[p] = {} /\ Communicate(p)
    \/ TurnLive(p) /\ Insert(p)
    \/ TurnLive(p) /\ Act(p, MaxLiveTick)
    \/ TurnLive(p) /\ Park(p)
    \/ TurnLive(p) /\ Dispatch(p)
    \/ TurnLive(p) /\ UserEvent(p)

NextLive == \E p \in Ids : LoopLive(p)

(* LoopLive(p) is enabled *)
CanLoop(p) ==
    /\ TurnLive(p)
    /\ \/ ~game[p].socket /\ pc[p] # "crashed" /\ game[p].counter <= MaxSetupTick
       \/ game[p].socket /\ thread[p] # {}
       \/ /\ game[p].socket /\ ~Outruns(p, Ids) /\ thread[p] = {}
          /\ pc[p] \in {"communicate", "events"} /\ ~Due(p)
       \/ pc[p] \in {"insert", "act", "dispatch"}
       \/ pc[p] = "events" /\ Due(p)

(* The step is one of LoopLive(p) *)
Looped(p) == pc'[p] # pc[p] \/ game'[p] # game[p] \/ thread'[p] # thread[p]

(* "while True: game.iteration()": the network thread of every process binds
   its socket, and the loop of every process goes on for ever, each on its
   own machine; what is in flight to a process is read by its next
   communicate. *)
SpecLive ==
    /\ InitLive /\ [][NextLive]_vars
    /\ \A p \in Ids : WF_vars(NetThread(p))
    /\ \A p \in Ids : <>[](~CanLoop(p)) \/ []<><<Looped(p)>>_vars

(* ------------------------------------------------------------------ *)
(* Claims                                                               *)
(* ------------------------------------------------------------------ *)
Knew(snap, q) == \E k \in DOMAIN snap.peers : snap.peers[k] = AddrOf(q)

(* Ticks both p and q sealed while each had the other in its peer list *)
SharedTicks(p, q) ==
    {t \in DOMAIN hist[p] \cap DOMAIN hist[q] :
        Knew(hist[p][t], q) /\ Knew(hist[q][t], p)}

(* C1: two peers that know each other have, at every tick both sealed after
   their handshake, applied the same ordered sequence of actions, and hold
   the same board, started flag and is_replay flag after it. *)
C1_SameTick ==
    \A p \in Procs : \A q \in Procs : \A t \in SharedTicks(p, q) :
        /\ hist[p][t].done = hist[q][t].done
        /\ hist[p][t].board = hist[q][t].board
        /\ hist[p][t].started = hist[q][t].started
        /\ hist[p][t].is_replay = hist[q][t].is_replay

Contributions(g) == DOMAIN Get(g.iter_actions, g.counter, EmptyDict)

(* C2: when a process seals a tick, its buffer for that tick holds a
   contribution of its own id and of every peer of its peer list; the
   contribution of a sender that is no peer stands in for none of them. *)
C2_SealedByPeers ==
    \A p \in Ids :
        tick_log[p].tick # None =>
            /\ p \in DOMAIN tick_log[p].sealed
            /\ \A k \in DOMAIN tick_log[p].peers :
                   IdAt(tick_log[p].peers[k]) \in DOMAIN tick_log[p].sealed

(* The step is p's act *)
ActStep(p) == pc[p] = "act" /\ pc'[p] # "act"

(* C3: past the grace ticks, act with fewer than n+1 contributions for the
   current tick, n the number of known peers, changes nothing of the Game
   object: counter, board, flags and messages stay; with n+1 or more it
   seals the tick. *)
C3_GateHolds ==
    [][\A p \in Ids :
          ActStep(p) /\ game[p].counter >= latency =>
              IF Cardinality(Contributions(game[p])) < Len(game[p].peers) + 1
              THEN game'[p] = game[p] /\ pc'[p] = "events"
              ELSE pc'[p] # "crashed" => tick_log'[p].tick = game[p].counter
      ]_vars

(* A process with two peers stands at act with two contributions for its
   tick, and another, with two peers, has sealed a tick on three. *)
C3_Waits ==
    \E p \in Ids : \E q \in Ids :
        /\ pc[p] = "act"
        /\ game[p].counter >= latency /\ game[p].counter < MaxPartyTick
        /\ Len(game[p].peers) = 2 /\ Cardinality(Contributions(game[p])) = 2
        /\ tick_log[q].tick >= latency
        /\ Len(tick_log[q].peers) = 2 /\ Cardinality(DOMAIN tick_log[q].sealed) = 3

(* Every known peer and the local id have a contribution for tick t *)
Complete(g, t) ==
    /\ t \in DOMAIN g.iter_actions
    /\ g.id \in DOMAIN g.iter_actions[t]
    /\ \A k \in DOMAIN g.peers : IdAt(g.peers[k]) \in DOMAIN g.iter_actions[t]

(* C4: on a process that knows a peer, once every known peer and the local
   id have a contribution for tick t, no step changes the list of any
   contributor for t: neither in the buffer of the process that holds it nor,
   the holder being the contributor, in what it sends for t from then on. *)
C4_Immutable ==
    [][\A p \in Procs : \A t \in DOMAIN game[p].iter_actions :
          game[p].peers # <<>> /\ Complete(game[p], t) =>
              /\ t \in DOMAIN game'[p].iter_actions
              /\ \A c \in DOMAIN game[p].iter_actions[t] :
                     /\ c \in DOMAIN game'[p].iter_actions[t]
                     /\ game'[p].iter_actions[t][c] = game[p].iter_actions[t][c]
      ]_vars

(* C5 as stated: in every step the counter of a process keeps its value or
   grows by one, and only act changes it. *)
C5_OnlyAct ==
    [][\A p \in Procs :
          game'[p].counter # game[p].counter =>
              /\ pc[p] \in {"act", "dispatch"}
              /\ game'[p].counter = game[p].counter + 1
      ]_vars

(* The datagram d carries a welcome in its list for tick t *)
CarriesWelcome(d, t) ==
    \E k \in DOMAIN d.window :
        /\ d.window[k][1] = t
        /\ \E j \in DOMAIN d.window[k][2] : d.window[k][2][j].kind = "welcome"

(* C5, amended: the counter of a process is changed by act, by exactly one,
   and by the communicate that completes its handshake, which sets it to a
   tick for which a datagram it has received carries a welcome; no other
   step changes it. *)
C5_ActOrHandshake ==
    [][\A p \in Procs :
          game'[p].counter # game[p].counter =>
              \/ /\ pc[p] \in {"act", "dispatch"}
                 /\ game'[p].counter = game[p].counter + 1
              \/ /\ pc[p] \in {"communicate", "events"}
                 /\ game[p].connecting /\ ~game'[p].connecting
                 /\ \E d \in Inbox(p) : ~d.hello /\ CarriesWelcome(d, game'[p].counter)
      ]_vars

(* A process has completed its handshake and its counter went back by it. *)
C5_Adopted ==
    \E p \in Procs : joined[p] # <<>> /\ joined[p][2] < joined[p][1]

(* The step is p's dispatch of a move action *)
MoveStep(p) == pc[p] = "dispatch" /\ Head(todo[p]).action.kind = "move"
                 /\ Len(Head(todo[p]).action.params) = 2

SrcOf(p) == Head(todo[p]).action.params[1]
DstOf(p) == Head(todo[p]).action.params[2]

(* C9: a move that was queued for piece P changes no board when the piece
   standing on src at the tick it is applied is not P. *)
C9_StaleMove ==
    [][\A p \in Ids :
          /\ MoveStep(p)
          /\ SrcOf(p) \in DOMAIN game[p].board
          /\ game[p].board[SrcOf(p)].id # Head(todo[p]).action.by
          => game'[p].board = game[p].board
      ]_vars

(* C10: a move(src, dst) changes no board unless dst is, at the tick it is
   applied, in moves() of the piece standing on src; the castling jump of
   the King is no exception. *)
C10_OnlyOffered ==
    [][\A p \in Ids :
          /\ MoveStep(p)
          /\ SrcOf(p) \in DOMAIN game[p].board
          /\ DstOf(p) \notin moves(game[p], game[p].board[SrcOf(p)])
          => game'[p].board = game[p].board
      ]_vars

(* The game as the handler of the action e finds it: announced, unless the
   handler is quiet *)
Announced(g, e) ==
    IF e.action.kind \in Quiet THEN g
    ELSE Say(g, nick(g, e.i) \o " did " \o Upper(e.action.kind))

(* The step is p's dispatch of a recognized action whose handler raises *)
FailStep(p) ==
    /\ pc[p] = "dispatch"
    /\ Head(todo[p]).action.kind \in Kinds
    /\ action_func(Announced(game[p], Head(todo[p])), Head(todo[p]).i,
                   Head(todo[p]).action).exc

(* The lines a step of p appends to its message log *)
NewLines(p) ==
    SubSeq(game'[p].messages, Len(game[p].messages) + 1, Len(game'[p].messages))

(* The rest of the tick after the action at the head of todo: the later
   actions are left to be applied, in their order, and after the last the
   counter has advanced by one. *)
GoesOn(p) ==
    /\ todo'[p] = Tail(todo[p])
    /\ IF Len(todo[p]) = 1
       THEN pc'[p] = "events" /\ game'[p].counter = game[p].counter + 1
       ELSE pc'[p] = "dispatch" /\ game'[p].counter = game[p].counter

(* C7: when the handler of a recognized action fails, the message log gets
   the line "action <kind> failed", once, as its last line; the later actions
   of the tick are still applied in order and the counter advances by one for
   the tick. *)
C7_FailureLogged ==
    [][\A p \in Ids :
          FailStep(p) =>
              LET line == "action " \o Head(todo[p]).action.kind \o " failed"
                  new == NewLines(p)
              IN /\ Len(game'[p].messages) > Len(game[p].messages)
                 /\ SubSeq(game'[p].messages, 1, Len(game[p].messages)) = game[p].messages
                 /\ new[Len(new)] = line
                 /\ Cardinality({k \in DOMAIN new : new[k] = line}) = 1
                 /\ GoesOn(p)
      ]_vars

(* A tick is over in which a reset failed on its argument and the chat line
   queued after it was applied. *)
C7_FailedThenApplied ==
    \E p \in Ids : \E j, k \in DOMAIN game[p].messages :
        /\ pc[p] = "events" /\ game[p].counter = tick_log[p].tick + 1
        /\ j < k
        /\ game[p].messages[j] = "action reset failed"
        /\ game[p].messages[k] = "anonymouse: hi"
        /\ \E n \in DOMAIN tick_log[p].done :
               /\ tick_log[p].done[n].action.kind = "reset"
               /\ n < Len(tick_log[p].done)

(* C8: applying an action of a kind that is not recognized appends one line
   to the message log and changes nothing else of the Game object: board,
   flags, peers, player; the later actions of the tick are still applied. *)
C8_UnknownKind ==
    [][\A p \in Ids :
          pc[p] = "dispatch" /\ Head(todo[p]).action.kind \notin Kinds =>
              /\ game'[p] = [game[p] EXCEPT
                     !.messages = Append(@, Head(todo[p]).action.kind \o ": no such action"),
                     !.counter = game'[p].counter]
              /\ GoesOn(p)
      ]_vars

(* A tick is over in which frobnicate was applied first and the actions
   queued after it were applied. *)
C8_UnknownThenApplied ==
    \E p \in Ids : \E j, k \in DOMAIN game[p].messages :
        /\ pc[p] = "events" /\ game[p].counter = tick_log[p].tick + 1
        /\ j < k
        /\ game[p].messages[j] = "frobnicate: no such action"
        /\ game[p].messages[k] = "anonymouse: hi"
        /\ tick_log[p].done[1].action.kind = "frobnicate"
        /\ Len(tick_log[p].done) = 3

Ascending(seq) == \A j, k \in DOMAIN seq : j < k => seq[j].i <= seq[k].i

(* The actions of contributor i in seq, in the order of seq *)
RECURSIVE ActionsOf(_, _)
ActionsOf(seq, i) ==
    IF seq = <<>> THEN <<>>
    ELSE (IF Head(seq).i = i THEN <<Head(seq).action>> ELSE <<>>) \o ActionsOf(Tail(seq), i)

IsPrefix(a, b) == Len(a) <= Len(b) /\ a = SubSeq(b, 1, Len(a))

RECURSIVE Total(_, _)
Total(d, ids) ==
    IF ids = {} THEN 0
    ELSE LET i == CHOOSE i \in ids : TRUE IN Len(d[i]) + Total(d, ids \ {i})

(* seq applies the contributions d so far as it goes: by ascending
   contributor, each contributor's actions in the order of its list, no
   contributor begun before the one before it is done *)
InOrder(seq, d) ==
    /\ Ascending(seq)
    /\ \A i \in DOMAIN d : IsPrefix(ActionsOf(seq, i), d[i])
    /\ \A n \in DOMAIN seq : seq[n].i \in DOMAIN d
    /\ \A n \in DOMAIN seq : \A i \in DOMAIN d :
           i < seq[n].i => Len(ActionsOf(SubSeq(seq, 1, n), i)) = Len(d[i])

(* The tick p sealed last is applied to its end *)
TickOver(p) == pc[p] # "dispatch"

(* C6 as stated: what a process applies in a sealed tick is in ascending
   order of contributor id, each contributor's actions in the order of its
   list for the tick, and at the end of the tick all of them are applied. *)
C6_OneOrder ==
    \A p \in Procs :
        tick_log[p].tick # None =>
            /\ InOrder(tick_log[p].done, tick_log[p].sealed)
            /\ TickOver(p) =>
                   Len(tick_log[p].done) = Total(tick_log[p].sealed, DOMAIN tick_log[p].sealed)

(* The part of done that applies the contributions of the sealed tick, and
   the part that re-applies the recorded tick *)
LiveLen(log) ==
    IF Len(log.done) < Total(log.sealed, DOMAIN log.sealed) THEN Len(log.done)
    ELSE Total(log.sealed, DOMAIN log.sealed)
Live(log) == SubSeq(log.done, 1, LiveLen(log))
Replayed(log) == SubSeq(log.done, LiveLen(log) + 1, Len(log.done))

(* C6, amended: the contributions of the sealed tick are applied in ascending
   order of contributor id, each contributor's in the order of its list; in
   replay mode the recorded contributions of tick replay_counter follow them,
   in the same order among themselves; the arrival order has no part. *)
C6_LiveThenReplayed ==
    \A p \in Procs :
        tick_log[p].tick # None =>
            /\ InOrder(Live(tick_log[p]), tick_log[p].sealed)
            /\ InOrder(Replayed(tick_log[p]), tick_log[p].replayed)
            /\ TickOver(p) =>
                   Len(tick_log[p].done) =
                       Total(tick_log[p].sealed, DOMAIN tick_log[p].sealed)
                       + Total(tick_log[p].replayed, DOMAIN tick_log[p].replayed)

(* A tick is over in which a process has applied an action of process 1 and
   then two of process 2. *)
C6_TwoContributors ==
    \E p \in Procs :
        /\ TickOver(p) /\ tick_log[p].tick # None
        /\ Len(ActionsOf(Live(tick_log[p]), 1)) = 1
        /\ Len(ActionsOf(Live(tick_log[p]), 2)) = 2

(* The player values claimed in who_is_who, spectators left out *)
Claimed(g) == {g.who_is_who[k] : k \in DOMAIN g.who_is_who} \ {NoneV}

(* What a move action applied before the start does: no piece moves; a
   warning and started stays false, or started becomes true. *)
StartsOrWarns(p) ==
    /\ game'[p].board = game[p].board
    /\ IF Cardinality(Claimed(game[p])) # game[p].num_players
       THEN /\ NewLines(p) = <<"CANNOT START WITH ORPHANED ARMIES">>
            /\ ~game'[p].started
       ELSE /\ NewLines(p) = <<>>
            /\ game'[p].started

(* C11 as stated: a move action applied while the session is not started
   and a peer is known moves no piece; it appends one warning and leaves
   started false when not every player is claimed, else it sets started; a
   running replay makes no difference. *)
C11_StartOrWarn ==
    [][\A p \in Procs :
          MoveStep(p) /\ ~game[p].started /\ game[p].peers # <<>> => StartsOrWarns(p)
      ]_vars

(* C11, amended: the same of a move action applied while the session is not
   started, no replay is running and a peer is known. *)
C11_StartOrWarnLive ==
    [][\A p \in Procs :
          /\ MoveStep(p) /\ ~game[p].started /\ game[p].peers # <<>>
          /\ ~game[p].is_replay
          => StartsOrWarns(p)
      ]_vars

(* A process with a peer has been warned of orphaned armies, and the move it
   has applied last has started the session; no piece has left its square. *)
C11_WarnedThenStarted ==
    \E p \in Procs :
        /\ pc[p] = "events" /\ game[p].peers # <<>>
        /\ game[p].started /\ game[p].last_start = tick_log[p].tick
        /\ tick_log[p].done # <<>>
        /\ tick_log[p].done[Len(tick_log[p].done)].action.kind = "move"
        /\ "CANNOT START WITH ORPHANED ARMIES" \in Range(game[p].messages)
        /\ tick_log[p].shifted = EmptyDict

(* The tick at which the piece last changed its square, None if it never did *)
ShiftedAt(p, piece) == Get(tick_log[p].shifted, piece.id, None)

(* counter is in [t, t + span) *)
Within(p, t, span) == t # None /\ t <= game[p].counter /\ game[p].counter < t + span

(* C12: a piece that changed its square at tick T, by a move, a capture or a
   castling (the King or the Rook brought over), has no moves at the ticks
   of [T, T + freeze_time), and no piece of its player has any at the ticks of
   [T, T + player_freeze_time). *)
C12_Cooldown ==
    \A p \in Procs : \A pos \in DOMAIN game[p].board :
        LET piece == game[p].board[pos]
        IN /\ Within(p, ShiftedAt(p, piece), FreezeTimeOf(piece.kind))
                => moves(game[p], piece) = {}
           /\ \A at \in DOMAIN game[p].board :
                /\ game[p].board[at].player = piece.player
                /\ Within(p, ShiftedAt(p, game[p].board[at]), player_freeze_time)
                => moves(game[p], piece) = {}

(* The King on (x, y) and the first piece from it in the direction, a Rook,
   have never changed their square, and no piece stands between them *)
CastlingFree(p, king, direction) ==
    LET g == game[p]
        x == king.pos[1]
        y == king.pos[2]
        rookAt == {d \in 1..RayLen(g) :
                      /\ <<x + d * direction, y>> \in DOMAIN g.board
                      /\ g.board[<<x + d * direction, y>>].kind = "Rook"
                      /\ \A e \in 1..(d - 1) : <<x + e * direction, y>> \notin DOMAIN g.board}
    IN /\ ShiftedAt(p, king) = None
       /\ \E d \in rookAt : ShiftedAt(p, g.board[<<x + d * direction, y>>]) = None

(* moves() offers the King on pos the jump of two squares in the direction *)
JumpOffered(p, pos, direction) ==
    /\ game[p].board[pos].kind = "King"
    /\ <<pos[1] + 2 * direction, pos[2]>> \in moves(game[p], game[p].board[pos])

(* The step is p's dispatch of a move of a King by more than one column
   that changes the board *)
JumpStep(p) ==
    /\ MoveStep(p)
    /\ SrcOf(p) \in DOMAIN game[p].board
    /\ game[p].board[SrcOf(p)].kind = "King"
    /\ Abs(DstOf(p)[1] - SrcOf(p)[1]) > 1
    /\ game'[p].board # game[p].board

(* C13: castling is offered to a King, and executed, only when neither the
   King nor the Rook has changed its square since the last reset and the
   squares between them are empty; a King that has changed its square, by
   castling too, is offered no castling until a reset. *)
C13_CastlingOnce ==
    /\ [](\A p \in Procs : \A pos \in DOMAIN game[p].board : \A direction \in {-1, 1} :
             JumpOffered(p, pos, direction)
                 => CastlingFree(p, game[p].board[pos], direction))
    /\ [][\A p \in Procs :
             JumpStep(p) =>
                 CastlingFree(p, game[p].board[SrcOf(p)],
                              IF DstOf(p)[1] > SrcOf(p)[1] THEN 1 ELSE -1)
         ]_vars

(* The step is p's dispatch of a move of the Pawn standing on src *)
PawnStep(p) ==
    /\ MoveStep(p)
    /\ SrcOf(p) \in DOMAIN game[p].board
    /\ game[p].board[SrcOf(p)].kind = "Pawn"

(* dst is on the far rank of the piece: row 7 for side 0, row 0 for side 1 *)
FarRank(piece, dst) ==
    (side(piece) = 0 /\ dst[2] = 7) \/ (side(piece) = 1 /\ dst[2] = 0)

Queens(board) == {pos \in DOMAIN board : board[pos].kind = "Queen"}

(* C14: a Pawn's move to its far rank, applied at tick T, leaves on the
   destination a Queen of the Pawn's player that is frozen until T + egg_time,
   and the Pawn on no square; a Pawn's move that is rejected leaves the board
   as it was, with the Queens it had. *)
C14_Promotion ==
    [][\A p \in Procs :
          PawnStep(p) =>
              LET pawn == game[p].board[SrcOf(p)]
                  after == game'[p].board
              IN IF DstOf(p) \in moves(game[p], pawn)
                 THEN FarRank(pawn, DstOf(p)) =>
                        /\ DstOf(p) \in DOMAIN after
                        /\ after[DstOf(p)].kind = "Queen"
                        /\ after[DstOf(p)].player = pawn.player
                        /\ after[DstOf(p)].freeze_until = game[p].counter + egg_time
                        /\ \A pos \in DOMAIN after : after[pos].id # pawn.id
                 ELSE after = game[p].board /\ Queens(after) = Queens(game[p].board)
      ]_vars

(* A white Pawn's move to row 7 is the last action of the tick the process
   has applied, and a white Queen stands there, frozen for egg_time ticks. *)
C14_Promoted ==
    \E p \in Procs :
        /\ pc[p] = "events" /\ tick_log[p].done # <<>>
        /\ LET last == tick_log[p].done[Len(tick_log[p].done)].action
           IN /\ last.kind = "move"
              /\ last.params[2][2] = 7
              /\ last.params[2] \in DOMAIN game[p].board
              /\ game[p].board[last.params[2]].kind = "Queen"
              /\ game[p].board[last.params[2]].player = 0
              /\ game[p].board[last.params[2]].freeze_until = tick_log[p].tick + egg_time

(* The step is p's dispatch of a move that takes the King standing on dst *)
KingTaken(p) ==
    /\ MoveStep(p)
    /\ SrcOf(p) \in DOMAIN game[p].board
    /\ DstOf(p) \in DOMAIN game[p].board
    /\ game[p].board[DstOf(p)].kind = "King"
    /\ \A pos \in DOMAIN game'[p].board :
           game'[p].board[pos].id # game[p].board[DstOf(p)].id

(* The step leaves a trace in the Game object of p beyond the squares and
   cooldowns of the rule engine and the advance of the tick: a line, a flag,
   an action queued, whatever the session logic would do on being told. *)
SessionTold(p) ==
    game'[p] # [game[p] EXCEPT !.board = game'[p].board,
                               !.player_freeze = game'[p].player_freeze,
                               !.objects = game'[p].objects,
                               !.counter = game'[p].counter]

(* C15: when a move applied in a sealed tick takes a King, the session logic
   is told of it in the same tick, and the piece that took it (or the Queen
   a Pawn became by the move) stands on the King's square. *)
C15_KingCaptureTold ==
    [][\A p \in Procs :
          KingTaken(p) =>
              LET mover == game[p].board[SrcOf(p)]
                  there == game'[p].board[DstOf(p)]
              IN /\ SessionTold(p)
                 /\ DstOf(p) \in DOMAIN game'[p].board
                 /\ \/ there.id = mover.id
                    \/ /\ mover.kind = "Pawn" /\ FarRank(mover, DstOf(p))
                       /\ there.kind = "Queen" /\ there.player = mover.player
      ]_vars

(* C18: whatever actions were applied, every entry of the board maps a
   coordinate of the board to a piece that records that coordinate as its
   position (so that no two pieces of the board share a coordinate). *)
C18_OnePiecePerSquare ==
    \A p \in Procs : \A pos \in DOMAIN game[p].board :
        /\ 0 <= pos[1] /\ pos[1] < game[p].board_size[1]
        /\ 0 <= pos[2] /\ pos[2] < game[p].board_size[2]
        /\ game[p].board[pos].pos = pos

(* A process has applied a castling: its white King stands on (6, 0) and
   the Rook on (5, 0), both brought there in the same tick. *)
C18_Castled ==
    \E p \in Procs :
        /\ pc[p] = "events"
        /\ <<6, 0>> \in DOMAIN game[p].board /\ <<5, 0>> \in DOMAIN game[p].board
        /\ game[p].board[<<6, 0>>].kind = "King"
        /\ game[p].board[<<5, 0>>].kind = "Rook"
        /\ ShiftedAt(p, game[p].board[<<6, 0>>]) # None
        /\ ShiftedAt(p, game[p].board[<<6, 0>>]) = ShiftedAt(p, game[p].board[<<5, 0>>])

(* The step is the communicate of p that detects the success of its handshake *)
Detects(p) == game[p].connecting /\ ~game'[p].connecting

(* C16: the communicate in which a connecting peer detects the success of
   its handshake leaves its synchronization buffer empty, so that nothing
   written into it before is left for a tick sealed later, and leaves its
   counter on the tick for which the datagram received carries the welcome. *)
C16_BufferEmptied ==
    [][\A p \in Procs :
          Detects(p) =>
              /\ pc[p] \in {"communicate", "events"} /\ pc'[p] = "insert"
              /\ game'[p].iter_actions = EmptyDict
              /\ \E d \in Inbox(p) : ~d.hello /\ CarriesWelcome(d, game'[p].counter)
      ]_vars

(* A process that held contributions when it detected the success of its
   handshake has since sealed a tick with its peer, none of the ticks it
   held before among those it holds now below the tick it adopted. *)
C16_SealedAfterJoining ==
    \E p \in Procs :
        /\ joined[p] # <<>>
        /\ pc[p] = "events"
        /\ tick_log[p].tick # None /\ tick_log[p].peers # <<>>
        /\ tick_log[p].tick >= joined[p][2]
        /\ \A t \in DOMAIN game[p].iter_actions : t >= joined[p][2] - latency

(* The datagram d carries, for tick t, a welcome whose target id is p *)
CarriesWelcomeOf(d, t, p) ==
    \E k \in DOMAIN d.window :
        /\ d.window[k][1] = t
        /\ \E j \in DOMAIN d.window[k][2] :
               /\ d.window[k][2][j].kind = "welcome"
               /\ d.window[k][2][j].params[2] = p

(* C17: a connecting peer leaves that state, and registers the sender of the
   datagram as a peer, only on a welcome whose target id is its own: the
   welcome of the tick it adopts is addressed to it, and a welcome issued for
   another joiner does not complete its handshake. *)
C17_OwnWelcome ==
    [][\A p \in Ids :
          Detects(p) =>
              \E d \in Inbox(p) :
                  /\ ~d.hello
                  /\ d.src \in Range(game'[p].peers)
                  /\ CarriesWelcomeOf(d, game'[p].counter, p)
      ]_vars

(* The step is a communicate of p, whose socket is bound *)
CommunicateStep(p) ==
    pc[p] \in {"communicate", "events"} /\ pc'[p] = "insert" /\ game[p].socket

Hellos(p) == {d \in Inbox(p) : d.hello}

(* The welcome actions a communicate of p appends to its outbox *)
Queued(p) ==
    SubSeq(game'[p].cur_actions, Len(game[p].cur_actions) + 1, Len(game'[p].cur_actions))

(* With HELLO datagrams read, the outbox has one welcome(address, id) more
   for each; when nothing else was read, nothing else of the Game object has
   changed, but for the buffer entries communicate creates for its window. *)
HelloOnlyQueues(p) ==
    /\ Len(Queued(p)) = Cardinality(Hellos(p))
    /\ Range(Queued(p)) = {Action("welcome", <<d.src, d.id>>) : d \in Hellos(p)}
    /\ Inbox(p) = Hellos(p) =>
           /\ game'[p] = [game[p] EXCEPT !.cur_actions = game'[p].cur_actions,
                                         !.iter_actions = game'[p].iter_actions]
           /\ \A t \in DOMAIN game'[p].iter_actions : \A i \in DOMAIN game'[p].iter_actions[t] :
                  IF t \in DOMAIN game[p].iter_actions /\ i \in DOMAIN game[p].iter_actions[t]
                  THEN game'[p].iter_actions[t][i] = game[p].iter_actions[t][i]
                  ELSE i = p /\ game'[p].iter_actions[t][i] = <<>>

(* The step brings the address of q into the peers of p, which has read a
   HELLO of q *)
Enters(p, q) ==
    /\ q \in tick_log'[p].greeted
    /\ AddrOf(q) \notin Range(game[p].peers)
    /\ AddrOf(q) \in Range(game'[p].peers)

(* The step is p's dispatch of welcome(address of q, q) inside a sealed tick,
   and it leaves the session reset *)
WelcomeApplied(p, q) ==
    /\ pc[p] = "dispatch"
    /\ Head(todo[p]).action.kind = "welcome"
    /\ Head(todo[p]).action.params = <<AddrOf(q), q>>
    /\ tick_log[p].tick = game[p].counter
    /\ ~game'[p].started /\ game'[p].who_is_who = EmptyDict /\ game'[p].player = NoneV
    /\ Cardinality(DOMAIN game'[p].board) = 32
    /\ \A pos \in DOMAIN game'[p].board :
           game'[p].board[pos].last_move_time = None /\ game'[p].board[pos].freeze_until = 0

(* C19 as stated: reading a HELLO changes nothing but the outbox, which gets
   one welcome(sender address, sender id); the sender enters the peers of
   the receiver only when that welcome is applied inside a sealed tick, in a
   step that resets the session. *)
C19_HelloThenWelcome ==
    [][\A p \in Procs :
          /\ CommunicateStep(p) => HelloOnlyQueues(p)
          /\ \A q \in Procs : Enters(p, q) => WelcomeApplied(p, q)
      ]_vars

(* C19, amended: the same, but that the sender also enters the peers of a
   receiver that is itself connecting when the receiver detects the success
   of its own handshake on a datagram of that sender. *)
C19_WelcomeOrHandshake ==
    [][\A p \in Procs :
          /\ CommunicateStep(p) => HelloOnlyQueues(p)
          /\ \A q \in Procs :
                Enters(p, q) =>
                    \/ WelcomeApplied(p, q)
                    \/ /\ CommunicateStep(p) /\ Detects(p)
                       /\ \E d \in Inbox(p) : ~d.hello /\ d.src = AddrOf(q)
      ]_vars

(* A process that never was connecting has read the HELLO of another and has
   it as its peer, by the welcome it has applied last. *)
C19_Welcomed ==
    \E p \in Procs : \E q \in Procs :
        /\ pc[p] = "events" /\ joined[p] = <<>> /\ ~game[p].connecting
        /\ q \in tick_log[p].greeted
        /\ game[p].peers = <<AddrOf(q)>>
        /\ tick_log[p].done # <<>>
        /\ tick_log[p].done[Len(tick_log[p].done)].action
               = Action("welcome", <<AddrOf(q), q>>)

(* The step is the scheduler's advance of p: act returning, or the last
   round of its for loop *)
Advance(p) ==
    /\ pc[p] \in {"act", "dispatch"}
    /\ game'[p].counter # game[p].counter

(* C20: while counter < latency every act adds exactly one to counter and
   does nothing else, whatever is recorded for that tick and however many
   peers are known; from counter = latency on, counter advances only past a
   tick sealed on more contributions than the peers known at the gate. *)
C20_GraceThenGate ==
    [][\A p \in Ids :
          /\ ActStep(p) /\ game[p].counter < latency =>
                 /\ game'[p] = [game[p] EXCEPT !.counter = game[p].counter + 1]
                 /\ pc'[p] = "events"
          /\ Advance(p) /\ game[p].counter >= latency =>
                 /\ game'[p].counter = game[p].counter + 1
                 /\ tick_log'[p].tick = game[p].counter
                 /\ Cardinality(DOMAIN tick_log'[p].sealed) >= Len(tick_log'[p].peers) + 1
      ]_vars

(* A process stands at act inside the grace ticks with a contribution of
   another process recorded for its tick, and a process with a peer has
   advanced past the grace ticks. *)
C20_GraceWithContribution ==
    \E p \in Ids : \E q \in Ids :
        /\ pc[p] = "act" /\ game[p].counter < latency
        /\ Contributions(game[p]) \ {p} # {}
        /\ game[q].counter > latency /\ game[q].peers # <<>>
        /\ tick_log[q].tick = game[q].counter - 1

(* The step is p's dispatch of a replay action that enters replay mode *)
EntersReplay(p) ==
    /\ pc[p] = "dispatch"
    /\ Head(todo[p]).action = Action("replay", <<>>)
    /\ game'[p].is_replay
    /\ game[p].last_start # None

(* An endreplay stands in the buffer of p at tick t *)
EndReplayAt(g, t) ==
    /\ t \in DOMAIN g.iter_actions
    /\ \E i \in DOMAIN g.iter_actions[t] :
           Action("endreplay", <<>>) \in Range(g.iter_actions[t][i])

(* C21: a replay action applied at tick C injects an endreplay at C and sets
   replay_counter to last_start, which is no later than C; each tick sealed
   in replay mode then moves replay_counter on by one, so that it reaches C,
   the endreplay is applied and replay mode ends. *)
C21_ReplayEnds ==
    [][\A p \in Procs :
          /\ EntersReplay(p) =>
                 /\ EndReplayAt(game'[p], tick_log[p].tick)
                 /\ game'[p].replay_counter = game[p].last_start
                 /\ game'[p].replay_counter <= tick_log[p].tick
          /\ ActStep(p) /\ game[p].is_replay /\ pc'[p] \in {"dispatch", "events"}
                        /\ game'[p].counter + Len(todo'[p]) # game[p].counter =>
                 game'[p].replay_counter = game[p].replay_counter + 1
      ]_vars


(* C22: the peer list of every process holds each address at most once and
   never its own, so that len(peers)+1 is the number of distinct
   participants whose contribution the process waits for. *)
C22_PeersOnce ==
    \A p \in Ids :
        /\ \A j \in DOMAIN game[p].peers : \A k \in DOMAIN game[p].peers :
               game[p].peers[j] = game[p].peers[k] => j = k
        /\ Len(game[p].peers) + 1 = Cardinality(Range(game[p].peers) \cup {AddrOf(p)})


(* p and q have each other in their peer lists and neither is connecting *)
Paired(p, q) ==
    /\ p # q
    /\ AddrOf(q) \in Range(game[p].peers) /\ AddrOf(p) \in Range(game[q].peers)
    /\ ~game[p].connecting /\ ~game[q].connecting

(* The step is p's act letting the current tick through the gate *)
Seals(p) ==
    /\ ActStep(p) /\ game[p].counter >= latency
    /\ pc'[p] = "dispatch" \/ game'[p].counter = game[p].counter + 1

(* C23: two processes that have each other as peers, their handshakes done,
   never stand more than latency ticks apart: none seals tick t while the
   counter of the other is below t - latency + 1. *)
C23_WithinLatency ==
    /\ [](\A p \in Ids : \A q \in Ids :
            Paired(p, q) => game[p].counter - game[q].counter <= latency)
    /\ [][\A p \in Ids : \A q \in Ids :
            Paired(p, q) /\ Seals(p) => game[q].counter >= game[p].counter - latency + 1
        ]_vars


(* C24: in a session formed by successive handshakes, with every loop
   iterating and every datagram read, no process stalls: the counter of
   every process that has a peer goes on to any given tick. *)
C24_NoStall ==
    \A p \in Ids : (game[p].peers # <<>>) ~> (game[p].counter >= MaxLiveTick)



(* Game.iteration between communicate and act: the outbox goes into the
   contribution of tick counter + latency *)
InsertStep(p) == pc[p] = "insert" /\ pc'[p] = "act"

Slot(g) == g.counter + latency

Mine(g, t) == g.id \in DOMAIN Get(g.iter_actions, t, EmptyDict)

(* The communicate of this iteration completed the handshake of p: the
   buffer has just been cleared *)
JustJoined(p) == joined[p] # <<>> /\ game[p].iter_actions = EmptyDict

(* The contribution of p to tick t has left p: it is in flight, or another
   process has stored it *)
Sent(p, t) ==
    \/ \E d \in net : /\ ~d.hello /\ d.id = game[p].id
                      /\ \E k \in DOMAIN d.window : d.window[k][1] = t
    \/ \E q \in Ids \ {p} : game[p].id \in DOMAIN Get(game[q].iter_actions, t, EmptyDict)

Grows(s, t) == Len(t) >= Len(s) /\ SubSeq(t, 1, Len(s)) = s

(* The insertion touches the local contribution of tick counter + latency
   and nothing else in the buffer *)
OneSlot(g, h) ==
    LET t == Slot(g)
        was == Get(g.iter_actions, t, EmptyDict)
    IN /\ \A u \in DOMAIN h.iter_actions \ {t} :
            u \in DOMAIN g.iter_actions /\ h.iter_actions[u] = g.iter_actions[u]
       /\ \A i \in DOMAIN h.iter_actions[t] \ {g.id} :
            i \in DOMAIN was /\ h.iter_actions[t][i] = was[i]

(* The outbox is moved whole into a contribution that was not there, or it
   is kept whole beside a contribution that stays as it was *)
MovedOrKept(g, h) ==
    LET t == Slot(g)
    IN IF Mine(g, t)
       THEN h.cur_actions = g.cur_actions /\ h.iter_actions[t][g.id] = g.iter_actions[t][g.id]
       ELSE h.cur_actions = <<>> /\ h.iter_actions[t][g.id] = g.cur_actions

(* C25: outside the iteration that completes a handshake, the insertion
   moves the whole outbox into the local contribution of tick
   counter + latency and of no other tick, that contribution has not been
   transmitted before, and when it is already there (the counter stalls)
   the outbox is kept whole; no other step takes an action out of the
   outbox. *)
C25_OutboxOnce ==
    [][\A p \in Ids :
         /\ InsertStep(p) /\ ~JustJoined(p) =>
              /\ OneSlot(game[p], game'[p])
              /\ MovedOrKept(game[p], game'[p])
              /\ ~Mine(game[p], Slot(game[p])) /\ game[p].cur_actions # <<>>
                    => ~Sent(p, Slot(game[p]))
         /\ ~InsertStep(p) => Grows(game[p].cur_actions, game'[p].cur_actions)
      ]_vars
============================================================================
